---- MODULE Spec2Model ----
(***************************************************************************)
(* core/types/block.go of go-ethereum: Header, Block, the derived header   *)
(* fields (TxHash, ReceiptHash, Bloom, UncleHash), the two header hashes,  *)
(* the wire decoder and the ordering of blocks by number.                  *)
(*                                                                         *)
(* Bytes are integers 0..255 and byte strings are sequences of them.  A    *)
(* nil *big.Int is Nil.  The collaborators that live in other packages     *)
(* (the canonical encoder and its decoder, the hash primitive, the root    *)
(* digest and the bloom aggregation) are modelled from their contracts.    *)
(***************************************************************************)
EXTENDS Integers, Sequences, FiniteSets, TLC

VARIABLES block, lastCall, arg, err, calls, hdrA, hdrB, blocks

vars == <<block, lastCall, arg, err, calls, hdrA, hdrB, blocks>>

(***************************************************************************)
(* Sizes.  The byte arrays are scaled down; the nonce keeps its 8 bytes.   *)
(***************************************************************************)
HashLength == 2
AddressLength == 2
BloomLength == 2
NonceLength == 8
MaxLen == 2
MaxCalls == 3
MaxBlocks == 4

\* A nil pointer (*big.Int); the integers of a header are never negative.
Nil == -1

(***************************************************************************)
(* Byte strings                                                            *)
(***************************************************************************)
Fill(n, v) == [i \in 1..n |-> v]

RECURSIVE Concat(_)
Concat(ss) == IF ss = <<>> THEN <<>> ELSE Head(ss) \o Concat(Tail(ss))

\* big.Int.Bytes(): the minimal big-endian bytes of n >= 0 (none for 0).
RECURSIVE BigBytes(_)
BigBytes(n) == IF n = 0 THEN <<>> ELSE BigBytes(n \div 256) \o <<n % 256>>

\* The unsigned big-endian value of a byte string.
RECURSIVE BEValue(_)
BEValue(b) ==
  IF b = <<>> THEN 0
  ELSE BEValue(SubSeq(b, 1, Len(b) - 1)) * 256 + b[Len(b)]

\* binary.BigEndian.PutUint64 into the 8-byte nonce, and its inverse.
PutUint64(n) == Fill(NonceLength - Len(BigBytes(n)), 0) \o BigBytes(n)

Uint64(b) == BEValue(b)

(***************************************************************************)
(* common.Encode: the canonical (recursive length-prefix) encoding.  An    *)
(* item is [t |-> "bytes", v |-> byte string], [t |-> "big", v |-> n or    *)
(* Nil], [t |-> "uint", v |-> n] or [t |-> "list", v |-> items].           *)
(***************************************************************************)
EncodeLength(n, offset) ==
  IF n < 56 THEN <<offset + n>>
  ELSE <<offset + 55 + Len(BigBytes(n))>> \o BigBytes(n)

EncodeBytes(b) ==
  IF Len(b) = 1 /\ b[1] < 128 THEN b ELSE EncodeLength(Len(b), 128) \o b

RECURSIVE Encode(_)
Encode(item) ==
  CASE item.t = "bytes" -> EncodeBytes(item.v)
    [] item.t = "uint"  -> EncodeBytes(BigBytes(item.v))
    [] item.t = "big"   -> IF item.v = Nil THEN <<192>>
                           ELSE EncodeBytes(BigBytes(item.v))
    [] item.t = "list"  ->
         LET payload == Concat([i \in 1..Len(item.v) |-> Encode(item.v[i])])
         IN  EncodeLength(Len(payload), 192) \o payload

BytesItem(b) == [t |-> "bytes", v |-> b]
UintItem(n) == [t |-> "uint", v |-> n]
BigItem(n) == [t |-> "big", v |-> n]
ListItem(s) == [t |-> "list", v |-> s]

(***************************************************************************)
(* crypto.Sha3 with common.BytesToHash: a collision-free digest.  The      *)
(* digest of a byte string is the marked byte string itself, so that two   *)
(* digests are equal exactly when their inputs are.  A hash value is then  *)
(* either HashLength literal bytes or a marked digest.                     *)
(***************************************************************************)
Sha3Mark == 255

Sha3(b) == <<Sha3Mark>> \o b

ZeroHash == Fill(HashLength, 0)

IsHash(b) == Len(b) = HashLength \/ (Len(b) >= 1 /\ b[1] = Sha3Mark)

(***************************************************************************)
(* Transaction and Receipt: opaque to block.go but for their canonical     *)
(* encoding (and, for a receipt, its log bloom).                           *)
(***************************************************************************)
TxItem(tx) == ListItem(<<UintItem(tx.nonce), BytesItem(tx.payload)>>)

ReceiptItem(r) == ListItem(<<UintItem(r.gas), BytesItem(r.bloom)>>)

TxItems(txs) == [i \in 1..Len(txs) |-> TxItem(txs[i])]

ReceiptItems(rs) == [i \in 1..Len(rs) |-> ReceiptItem(rs[i])]

\* DeriveSha: the root digest of an ordered list, each item keyed by its
\* index; the root of the empty list is the digest of the empty string.
DeriveSha(items) ==
  IF Len(items) = 0 THEN Sha3(EncodeBytes(<<>>))
  ELSE Sha3(Encode(ListItem(
         [i \in 1..Len(items) |-> ListItem(<<UintItem(i - 1), items[i]>>)])))

RECURSIVE OrByte(_, _)
OrByte(a, b) ==
  IF a = 0 THEN b
  ELSE IF b = 0 THEN a
  ELSE (IF a % 2 = 1 \/ b % 2 = 1 THEN 1 ELSE 0)
       + 2 * OrByte(a \div 2, b \div 2)

\* CreateBloom: the union of the receipts' log blooms.
RECURSIVE CreateBloom(_)
CreateBloom(rs) ==
  IF rs = <<>> THEN Fill(BloomLength, 0)
  ELSE LET rest == CreateBloom(Tail(rs))
       IN  [i \in 1..BloomLength |-> OrByte(Head(rs).bloom[i], rest[i])]

(***************************************************************************)
(* Header                                                                  *)
(***************************************************************************)
\* rlpData with the flag ignored: the two seal fields are always appended.
rlpData_IgnoreFlag(self, withNonce) ==
  <<BytesItem(self.ParentHash), BytesItem(self.UncleHash),
    BytesItem(self.Coinbase), BytesItem(self.Root), BytesItem(self.TxHash),
    BytesItem(self.ReceiptHash), BytesItem(self.Bloom),
    BigItem(self.Difficulty), BigItem(self.Number), BigItem(self.GasLimit),
    BigItem(self.GasUsed), UintItem(self.Time), BytesItem(self.Extra),
    BytesItem(self.MixDigest), BytesItem(self.Nonce)>>

rlpData(self, withNonce) ==
  LET fields == <<BytesItem(self.ParentHash),
                  BytesItem(self.UncleHash),
                  BytesItem(self.Coinbase),
                  BytesItem(self.Root),
                  BytesItem(self.TxHash),
                  BytesItem(self.ReceiptHash),
                  BytesItem(self.Bloom),
                  BigItem(self.Difficulty),
                  BigItem(self.Number),
                  BigItem(self.GasLimit),
                  BigItem(self.GasUsed),
                  UintItem(self.Time),
                  BytesItem(self.Extra)>>
  IN  IF withNonce
        THEN fields \o <<BytesItem(self.MixDigest), BytesItem(self.Nonce)>>
        ELSE fields

Header_RlpData(self) == ListItem(rlpData(self, TRUE))

Header_Hash(self) == Sha3(Encode(ListItem(rlpData(self, TRUE))))

Header_HashNoNonce(self) == Sha3(Encode(ListItem(rlpData(self, FALSE))))

\* SetNonce through a conversion that keeps the low byte of the nonce only.
Header_SetNonce_LowByte(self, nonce) ==
  [self EXCEPT !.Nonce = PutUint64(nonce % 256)]

Header_SetNonce(self, nonce) == [self EXCEPT !.Nonce = PutUint64(nonce)]

HeaderItems(hs) == [i \in 1..Len(hs) |-> Header_RlpData(hs[i])]

(***************************************************************************)
(* rlp.Stream.Decode into the wire shape {Header, Txs, Uncles, TD}, the    *)
(* inverse of the canonical encoding.  An item of the input is described   *)
(* by its kind ("s" a string, "l" a list) and the place of its payload.    *)
(* Sizes must be canonical and must fit the enclosing payload.  A size of  *)
(* more than three bytes cannot fit an input this short.                   *)
(***************************************************************************)
BadItem == [ok |-> FALSE, kind |-> "s", ps |-> 1, pl |-> 0]

ItemAt(b, p, lim) ==
  IF p > lim THEN BadItem
  ELSE
    LET x == b[p]
        Short(kind, n) ==
          IF p + n > lim THEN BadItem
          ELSE [ok |-> TRUE, kind |-> kind, ps |-> p + 1, pl |-> n]
        Long(kind, ll) ==
          IF ll > 3 \/ p + ll > lim THEN BadItem
          ELSE LET n == BEValue(SubSeq(b, p + 1, p + ll))
               IN  IF b[p + 1] = 0 \/ n < 56 \/ p + ll + n > lim THEN BadItem
                   ELSE [ok |-> TRUE, kind |-> kind, ps |-> p + ll + 1, pl |-> n]
    IN  IF x < 128 THEN [ok |-> TRUE, kind |-> "s", ps |-> p, pl |-> 1]
        ELSE IF x < 184 THEN
          IF x = 129 /\ p + 1 <= lim /\ b[p + 1] < 128 THEN BadItem
          ELSE Short("s", x - 128)
        ELSE IF x < 192 THEN Long("s", x - 183)
        ELSE IF x < 248 THEN Short("l", x - 192)
        ELSE Long("l", x - 247)

\* The one element of a singleton set: The({e(x) : x \in {d}}) is e(d), with d
\* evaluated once.
The(S) == CHOOSE x \in S : TRUE

BadValue == [ok |-> FALSE, kind |-> "s", v |-> <<>>]

\* The values of the payload b[lo..hi], in order, up to the first bad one.  A
\* string is its bytes, a list is the values of its payload.
RECURSIVE ValuesIn(_, _, _)
ValuesIn(b, lo, hi) ==
  IF lo > hi THEN <<>>
  ELSE The({ IF ~it.ok THEN <<BadValue>>
             ELSE IF it.kind = "s"
               THEN <<[ok |-> TRUE, kind |-> "s",
                       v |-> SubSeq(b, it.ps, it.ps + it.pl - 1)]>>
                    \o ValuesIn(b, it.ps + it.pl, hi)
               ELSE The({ <<[ok |-> \A i \in 1..Len(kids) : kids[i].ok,
                             kind |-> "l", v |-> kids]>>
                          : kids \in {ValuesIn(b, it.ps, it.ps + it.pl - 1)} })
                    \o ValuesIn(b, it.ps + it.pl, hi)
             : it \in {ItemAt(b, lo, hi)} })

\* The first value of the stream; what follows it is left in the stream.
FirstValue(s) ==
  The({ IF ~it.ok THEN BadValue
        ELSE Head(ValuesIn(s, 1, it.ps + it.pl - 1))
        : it \in {ItemAt(s, 1, Len(s))} })

IsList(t, n) == t.ok /\ t.kind = "l" /\ Len(t.v) = n

DecodeString(t) == [ok |-> t.ok /\ t.kind = "s", v |-> t.v]

DecodeArray(t, n) == [ok |-> t.ok /\ t.kind = "s" /\ Len(t.v) = n, v |-> t.v]

DecodeHash(t) == [ok |-> t.ok /\ t.kind = "s" /\ IsHash(t.v), v |-> t.v]

\* An unsigned integer: at most three bytes here, no leading zero byte.
DecodeUint(t) ==
  IF t.ok /\ t.kind = "s" /\ Len(t.v) <= 3 /\ (Len(t.v) > 0 => t.v[1] # 0)
    THEN [ok |-> TRUE, v |-> BEValue(t.v)]
    ELSE [ok |-> FALSE, v |-> 0]

\* A *big.Int: the empty list is the nil pointer.
DecodeBig(t) ==
  IF IsList(t, 0) THEN [ok |-> TRUE, v |-> Nil] ELSE DecodeUint(t)

NoHeader ==
  [ParentHash |-> <<>>, UncleHash |-> <<>>, Coinbase |-> <<>>, Root |-> <<>>,
   TxHash |-> <<>>, ReceiptHash |-> <<>>, Bloom |-> <<>>, Difficulty |-> Nil,
   Number |-> Nil, GasLimit |-> Nil, GasUsed |-> Nil, Time |-> 0,
   Extra |-> <<>>, MixDigest |-> <<>>, Nonce |-> <<>>]

DecodeHeader(t) ==
  IF ~IsList(t, 15) THEN [ok |-> FALSE, v |-> NoHeader]
  ELSE The({ [ok |-> \A i \in 1..15 : f[i].ok,
              v |-> [ParentHash |-> f[1].v, UncleHash |-> f[2].v,
                     Coinbase |-> f[3].v, Root |-> f[4].v,
                     TxHash |-> f[5].v, ReceiptHash |-> f[6].v,
                     Bloom |-> f[7].v, Difficulty |-> f[8].v,
                     Number |-> f[9].v, GasLimit |-> f[10].v,
                     GasUsed |-> f[11].v, Time |-> f[12].v,
                     Extra |-> f[13].v, MixDigest |-> f[14].v,
                     Nonce |-> f[15].v]]
             : f \in {<<DecodeHash(t.v[1]), DecodeHash(t.v[2]),
                        DecodeArray(t.v[3], AddressLength), DecodeHash(t.v[4]),
                        DecodeHash(t.v[5]), DecodeHash(t.v[6]),
                        DecodeArray(t.v[7], BloomLength), DecodeBig(t.v[8]),
                        DecodeBig(t.v[9]), DecodeBig(t.v[10]),
                        DecodeBig(t.v[11]), DecodeUint(t.v[12]),
                        DecodeString(t.v[13]), DecodeHash(t.v[14]),
                        DecodeArray(t.v[15], NonceLength)>>} })

DecodeTx(t) ==
  IF ~IsList(t, 2) THEN [ok |-> FALSE, v |-> [nonce |-> 0, payload |-> <<>>]]
  ELSE The({ [ok |-> f[1].ok /\ f[2].ok,
              v |-> [nonce |-> f[1].v, payload |-> f[2].v]]
             : f \in {<<DecodeUint(t.v[1]), DecodeString(t.v[2])>>} })

DecodeTxs(t) ==
  IF ~(t.ok /\ t.kind = "l") THEN [ok |-> FALSE, v |-> <<>>]
  ELSE The({ [ok |-> \A i \in 1..Len(r) : r[i].ok,
              v |-> [i \in 1..Len(r) |-> r[i].v]]
             : r \in {[i \in 1..Len(t.v) |-> DecodeTx(t.v[i])]} })

DecodeHeaders(t) ==
  IF ~(t.ok /\ t.kind = "l") THEN [ok |-> FALSE, v |-> <<>>]
  ELSE The({ [ok |-> \A i \in 1..Len(r) : r[i].ok,
              v |-> [i \in 1..Len(r) |-> r[i].v]]
             : r \in {[i \in 1..Len(t.v) |-> DecodeHeader(t.v[i])]} })

\* s.Decode(&extblock): the first value of the stream as {Header, Txs,
\* Uncles, TD}, TD optional; extblock starts zeroed, so an absent TD is nil.
StreamDecode(s) ==
  The({ IF ~(IsList(t, 3) \/ IsList(t, 4))
          THEN [ok |-> FALSE, Header |-> NoHeader, Txs |-> <<>>,
                Uncles |-> <<>>, TD |-> Nil]
          ELSE The({ [ok |-> f[1].ok /\ f[2].ok /\ f[3].ok /\ f[4].ok,
                      Header |-> f[1].v, Txs |-> f[2].v, Uncles |-> f[3].v,
                      TD |-> f[4].v]
                     : f \in {<<DecodeHeader(t.v[1]), DecodeTxs(t.v[2]),
                                DecodeHeaders(t.v[3]),
                                IF Len(t.v) = 4 THEN DecodeBig(t.v[4])
                                ELSE [ok |-> TRUE, v |-> Nil]>>} })
        : t \in {FirstValue(s)} })

(***************************************************************************)
(* Block                                                                   *)
(***************************************************************************)
\* The zero value of Header.
ZeroHeader ==
  [ParentHash |-> ZeroHash, UncleHash |-> ZeroHash,
   Coinbase |-> Fill(AddressLength, 0), Root |-> ZeroHash,
   TxHash |-> ZeroHash, ReceiptHash |-> ZeroHash,
   Bloom |-> Fill(BloomLength, 0), Difficulty |-> Nil, Number |-> Nil,
   GasLimit |-> Nil, GasUsed |-> Nil, Time |-> 0, Extra |-> <<>>,
   MixDigest |-> ZeroHash, Nonce |-> Fill(NonceLength, 0)]

\* The zero value of Block around a header.
BlockOf(header) ==
  [HeaderHash |-> ZeroHash, ParentHeaderHash |-> ZeroHash, header |-> header,
   uncles |-> <<>>, transactions |-> <<>>, Td |-> Nil, receipts |-> <<>>,
   Reward |-> Nil]

\* now is time.Now().Unix().
NewBlock(parentHash, coinbase, root, difficulty, nonce, extra, now) ==
  LET header == [ZeroHeader EXCEPT !.Root = root,
                                   !.ParentHash = parentHash,
                                   !.Coinbase = coinbase,
                                   !.Difficulty = difficulty,
                                   !.Time = now,
                                   !.Extra = extra,
                                   !.GasUsed = 0,
                                   !.GasLimit = 0]
  IN  [BlockOf(Header_SetNonce(header, nonce)) EXCEPT !.Reward = 0]

NewBlockWithHeader(header) == BlockOf(header)

\* DecodeRLP that assigns Td only when the stream carried one.
DecodeRLP_KeepTd(self, s) ==
  The({ IF ~extblock.ok THEN [block |-> self, err |-> "error"]
        ELSE [block |-> [self EXCEPT !.header = extblock.Header,
                                     !.uncles = extblock.Uncles,
                                     !.transactions = extblock.Txs,
                                     !.Td = IF extblock.TD = Nil THEN self.Td
                                            ELSE extblock.TD],
              err |-> "nil"]
        : extblock \in {StreamDecode(s)} })

\* DecodeRLP that decodes straight into the receiver's header.
DecodeRLP_Partial(self, s) ==
  The({ IF ~extblock.ok
          THEN [block |-> [self EXCEPT !.header = extblock.Header],
                err |-> "error"]
          ELSE [block |-> [self EXCEPT !.header = extblock.Header,
                                       !.uncles = extblock.Uncles,
                                       !.transactions = extblock.Txs,
                                       !.Td = extblock.TD],
                err |-> "nil"]
        : extblock \in {StreamDecode(s)} })

\* The result is the receiver after the call and the error returned.
DecodeRLP(self, s) ==
  The({ IF ~extblock.ok THEN [block |-> self, err |-> "error"]
        ELSE [block |-> [self EXCEPT !.header = extblock.Header,
                                     !.uncles = extblock.Uncles,
                                     !.transactions = extblock.Txs,
                                     !.Td = extblock.TD],
              err |-> "nil"]
        : extblock \in {StreamDecode(s)} })

Uncles(self) == self.uncles

SetUncles(self, uncleHeaders) ==
  [self EXCEPT !.uncles = uncleHeaders,
               !.header.UncleHash = Sha3(Encode(ListItem(HeaderItems(uncleHeaders))))]

Transactions(self) == self.transactions

\* SetTransactions that stores the root in the receipt root's field.
SetTransactions_WrongField(self, transactions) ==
  [self EXCEPT !.transactions = transactions,
               !.header.ReceiptHash = DeriveSha(TxItems(transactions))]

SetTransactions(self, transactions) ==
  [self EXCEPT !.transactions = transactions,
               !.header.TxHash = DeriveSha(TxItems(transactions))]

AddTransaction(self, transaction) ==
  SetTransactions([self EXCEPT !.transactions = Append(self.transactions, transaction)],
                  Append(self.transactions, transaction))

Receipts(self) == self.receipts

\* SetReceipts that forgets the bloom.
SetReceipts_NoBloom(self, receipts) ==
  [self EXCEPT !.receipts = receipts,
               !.header.ReceiptHash = DeriveSha(ReceiptItems(receipts))]

SetReceipts(self, receipts) ==
  [self EXCEPT !.receipts = receipts,
               !.header.ReceiptHash = DeriveSha(ReceiptItems(receipts)),
               !.header.Bloom = CreateBloom(receipts)]

\* AddReceipt that appends without going through SetReceipts.
AddReceipt_NoRehash(self, receipt) ==
  [self EXCEPT !.receipts = Append(self.receipts, receipt)]

AddReceipt(self, receipt) ==
  SetReceipts([self EXCEPT !.receipts = Append(self.receipts, receipt)],
              Append(self.receipts, receipt))

Block_RlpData(self) ==
  ListItem(<<Header_RlpData(self.header),
             ListItem(TxItems(self.transactions)),
             ListItem(HeaderItems(self.uncles))>>)

\* The storage form without the total difficulty.
RlpDataForStorage_NoTd(self) ==
  ListItem(<<Header_RlpData(self.header),
             ListItem(TxItems(self.transactions)),
             ListItem(HeaderItems(self.uncles))>>)

RlpDataForStorage(self) ==
  ListItem(<<Header_RlpData(self.header),
             ListItem(TxItems(self.transactions)),
             ListItem(HeaderItems(self.uncles)),
             BigItem(self.Td)>>)

Block_Nonce(self) == Uint64(self.header.Nonce)

Block_SetNonce(self, nonce) ==
  [self EXCEPT !.header = Header_SetNonce(self.header, nonce)]

SetRoot(self, root) == [self EXCEPT !.header.Root = root]

Block_HashNoNonce(self) == Header_HashNoNonce(self.header)

\* Hash() that never looks at the override.
Block_Hash_NoOverride(self) == Header_Hash(self.header)

Block_Hash(self) ==
  IF self.HeaderHash # ZeroHash THEN self.HeaderHash
  ELSE Header_Hash(self.header)

Block_ParentHash(self) ==
  IF self.ParentHeaderHash # ZeroHash THEN self.ParentHeaderHash
  ELSE self.header.ParentHash

(***************************************************************************)
(* Blocks, BlockBy and blockSorter.  sort.Sort on a slice this short is    *)
(* its insertion sort over Len, Less and Swap.                             *)
(***************************************************************************)
Number(b1, b2) == b1.header.Number < b2.header.Number

By(by, b1, b2) == CASE by = "Number" -> Number(b1, b2)

SorterLen(self) == Len(self.blocks)

SorterSwap(self, i, j) ==
  [self EXCEPT !.blocks = [self.blocks EXCEPT ![i] = self.blocks[j],
                                              ![j] = self.blocks[i]]]

\* Less with its two indices swapped.
SorterLess_Swapped(self, i, j) == By(self.by, self.blocks[j], self.blocks[i])

SorterLess(self, i, j) == By(self.by, self.blocks[i], self.blocks[j])

RECURSIVE SiftDown(_, _)
SiftDown(data, j) ==
  IF j > 1 /\ SorterLess(data, j, j - 1)
    THEN SiftDown(SorterSwap(data, j, j - 1), j - 1)
    ELSE data

RECURSIVE InsertionSort(_, _)
InsertionSort(data, i) ==
  IF i > SorterLen(data) THEN data
  ELSE InsertionSort(SiftDown(data, i), i + 1)

BlockBy_Sort(self, blks) ==
  LET bs == [blocks |-> blks, by |-> self]
  IN  InsertionSort(bs, 2).blocks

(***************************************************************************)
(* Inputs                                                                  *)
(***************************************************************************)
HashA == Fill(HashLength, 1)
HashB == Fill(HashLength, 2)
AddrA == Fill(AddressLength, 3)

Tx1 == [nonce |-> 0, payload |-> <<>>]
Tx2 == [nonce |-> 1, payload |-> <<200>>]
TxPool == {Tx1, Tx2}

Rc1 == [gas |-> 1, bloom |-> [i \in 1..BloomLength |-> IF i = 1 THEN 1 ELSE 0]]
Rc2 == [gas |-> 2, bloom |-> [i \in 1..BloomLength |-> IF i = 1 THEN 3 ELSE 4]]
RcPool == {Rc1, Rc2}

Uncle1 == [ZeroHeader EXCEPT !.ParentHash = HashA, !.Number = 1, !.Difficulty = 2,
                             !.GasLimit = 0, !.GasUsed = 0, !.Time = 4]
Uncle2 == [Uncle1 EXCEPT !.Coinbase = AddrA, !.Extra = <<1, 2>>]

\* A header as a peer sends it: its derived fields are what the peer says.
PeerHeader ==
  [ZeroHeader EXCEPT !.ParentHash = HashB, !.Coinbase = AddrA, !.Root = HashA,
                     !.TxHash = HashA, !.Number = 2, !.Difficulty = 300,
                     !.GasLimit = 1, !.GasUsed = 0, !.Time = 5,
                     !.MixDigest = HashB, !.Nonce = PutUint64(1)]

TxLists == {<<>>, <<Tx1>>, <<Tx2, Tx1>>}
RcLists == {<<>>, <<Rc2>>, <<Rc1, Rc2>>}
UncleLists == {<<>>, <<Uncle1>>, <<Uncle2, Uncle1>>}
NonceValues == {0, 258}
TdValues == {300}

\* The blocks whose encodings arrive on the wire or come from storage.
PeerA ==
  [SetUncles(SetTransactions(NewBlockWithHeader(PeerHeader), <<Tx2, Tx1>>),
             <<Uncle1>>) EXCEPT !.Td = 300]
PeerB == NewBlock(HashA, AddrA, HashB, 1, 258, <<200>>, 6)
PeerC == [NewBlockWithHeader(PeerHeader) EXCEPT !.Td = 0]
PeerBlocks == {PeerA, PeerB, PeerC}

NetworkForm(b) == Encode(Block_RlpData(b))
StorageForm(b) == Encode(RlpDataForStorage(b))

GoodStreams ==
  {NetworkForm(b) : b \in PeerBlocks} \cup {StorageForm(b) : b \in PeerBlocks}

\* Streams that do not have the shape {header, transactions, uncles [, td]}:
\* cut short, too few or too many fields, a string for the block, a header
\* without its last two fields, a number with a leading zero byte.
BadStreams ==
  LET h == Header_RlpData(PeerHeader)
      txs == ListItem(TxItems(<<Tx1>>))
      uncles == ListItem(<<>>)
      full == NetworkForm(PeerA)
  IN  { SubSeq(full, 1, Len(full) - 1),
        Encode(ListItem(<<h, txs>>)),
        Encode(ListItem(<<h, txs, uncles, BigItem(1), BigItem(2)>>)),
        Encode(BytesItem(<<1, 2, 3>>)),
        Encode(ListItem(<<ListItem(rlpData(PeerHeader, FALSE)), txs, uncles>>)),
        Encode(ListItem(<<h, txs, uncles, BytesItem(<<0, 1>>)>>)) }

Streams == GoodStreams \cup BadStreams

\* The streams handed to DecodeRLP in a run: the good ones, one cut short and
\* one with too few fields.
WireStreams ==
  GoodStreams
    \cup {SubSeq(NetworkForm(PeerA), 1, Len(NetworkForm(PeerA)) - 1),
          Encode(ListItem(<<Header_RlpData(PeerHeader),
                            ListItem(TxItems(<<Tx1>>))>>))}

(***************************************************************************)
(* The life of one Block: built by NewBlock or NewBlockWithHeader, then    *)
(* any calls, at most MaxCalls of them.  lastCall, arg and err record the  *)
(* last call, its argument and the error it returned.                      *)
(***************************************************************************)
Init ==
  /\ \/ /\ block = NewBlock(HashA, AddrA, HashB, 1, 0, <<>>, 5)
        /\ lastCall = "NewBlock"
     \/ /\ block = NewBlockWithHeader(PeerHeader)
        /\ lastCall = "NewBlockWithHeader"
  /\ arg = <<>>
  /\ err = "nil"
  /\ calls = 0
  /\ hdrA = ZeroHeader
  /\ hdrB = ZeroHeader
  /\ blocks = <<>>

Called(name, a, b, e) ==
  /\ calls < MaxCalls
  /\ block' = b
  /\ lastCall' = name
  /\ arg' = a
  /\ err' = e
  /\ calls' = calls + 1
  /\ UNCHANGED <<hdrA, hdrB, blocks>>

CallSetTransactions ==
  \E txs \in TxLists :
    Called("SetTransactions", txs, SetTransactions(block, txs), "nil")

CallAddTransaction ==
  \E tx \in TxPool :
    /\ Len(block.transactions) < MaxLen
    /\ Called("AddTransaction", tx, AddTransaction(block, tx), "nil")

CallSetReceipts ==
  \E rs \in RcLists :
    Called("SetReceipts", rs, SetReceipts(block, rs), "nil")

CallAddReceipt ==
  \E r \in RcPool :
    /\ Len(block.receipts) < MaxLen
    /\ Called("AddReceipt", r, AddReceipt(block, r), "nil")

CallSetUncles ==
  \E us \in UncleLists :
    Called("SetUncles", us, SetUncles(block, us), "nil")

CallSetNonce ==
  \E n \in NonceValues :
    Called("SetNonce", n, Block_SetNonce(block, n), "nil")

CallSetRoot ==
  \E root \in {HashA} :
    Called("SetRoot", root, SetRoot(block, root), "nil")

\* The exported fields are assigned by the caller.
AssignHeaderHash ==
  \E h \in {HashB} :
    Called("HeaderHash=", h, [block EXCEPT !.HeaderHash = h], "nil")

AssignParentHeaderHash ==
  \E h \in {HashA} :
    Called("ParentHeaderHash=", h, [block EXCEPT !.ParentHeaderHash = h], "nil")

AssignTd ==
  \E td \in TdValues :
    Called("Td=", td, [block EXCEPT !.Td = td], "nil")

CallDecodeRLP ==
  \E s \in WireStreams :
    LET r == DecodeRLP(block, s)
    IN  Called("DecodeRLP", s, r.block, r.err)

Next ==
  \/ CallSetTransactions
  \/ CallAddTransaction
  \/ CallSetReceipts
  \/ CallAddReceipt
  \/ CallSetUncles
  \/ CallSetNonce
  \/ CallSetRoot
  \/ AssignHeaderHash
  \/ AssignParentHeaderHash
  \/ AssignTd
  \/ CallDecodeRLP

Spec == Init /\ [][Next]_vars

(***************************************************************************)
(* Two headers: hdrB starts as a copy of hdrA and has its fields assigned  *)
(* through the pointer Header() returns, or its nonce set by SetNonce.     *)
(***************************************************************************)
HashedFields ==
  {"ParentHash", "UncleHash", "Coinbase", "Root", "TxHash", "ReceiptHash",
   "Bloom", "Difficulty", "Number", "GasLimit", "GasUsed", "Time", "Extra"}

SealFields == {"MixDigest", "Nonce"}

FieldValues(f) ==
  CASE f \in {"ParentHash", "UncleHash", "Root", "TxHash", "ReceiptHash",
              "MixDigest"} -> {ZeroHash, HashA}
    [] f = "Coinbase" -> {Fill(AddressLength, 0), AddrA}
    [] f = "Bloom" -> {Fill(BloomLength, 0), Rc1.bloom}
    [] f \in {"Difficulty", "Number", "GasLimit", "GasUsed"} -> {Nil, 0, 300}
    [] f = "Time" -> {0, 5}
    [] f = "Extra" -> {<<>>, <<200>>}
    [] f = "Nonce" -> {PutUint64(n) : n \in NonceValues}

InitHeader ==
  /\ hdrA \in {PeerHeader, Uncle2}
  /\ hdrB = hdrA
  /\ block = NewBlockWithHeader(hdrA)
  /\ lastCall = "NewBlockWithHeader"
  /\ arg = <<>>
  /\ err = "nil"
  /\ calls = 0
  /\ blocks = <<>>

AssignField ==
  \E f \in HashedFields \cup SealFields :
    \E v \in FieldValues(f) :
      /\ calls < MaxCalls
      /\ v # hdrB[f]
      /\ hdrB' = [hdrB EXCEPT ![f] = v]
      /\ calls' = calls + 1
      /\ UNCHANGED <<block, lastCall, arg, err, hdrA, blocks>>

CallHeaderSetNonce ==
  \E n \in NonceValues \cup {1} :
    /\ calls < MaxCalls
    /\ hdrB' = Header_SetNonce(hdrB, n)
    /\ calls' = calls + 1
    /\ UNCHANGED <<block, lastCall, arg, err, hdrA, blocks>>

NextHeader == AssignField \/ CallHeaderSetNonce

SpecHeader == InitHeader /\ [][NextHeader]_vars

(***************************************************************************)
(* A slice of blocks, appended to and sorted by BlockBy(Number).Sort.      *)
(***************************************************************************)
NumberedBlock(n, extra) ==
  NewBlockWithHeader([Uncle1 EXCEPT !.Number = n, !.Extra = extra])

SortPool ==
  {NumberedBlock(0, <<>>), NumberedBlock(1, <<>>), NumberedBlock(1, <<9>>),
   NumberedBlock(300, <<>>)}

InitSort ==
  /\ blocks = <<>>
  /\ block = BlockOf(ZeroHeader)
  /\ lastCall = "Blocks"
  /\ arg = <<>>
  /\ err = "nil"
  /\ calls = 0
  /\ hdrA = ZeroHeader
  /\ hdrB = ZeroHeader

AppendBlock ==
  \E b \in SortPool :
    /\ Len(blocks) < MaxBlocks
    /\ blocks' = Append(blocks, b)
    /\ lastCall' = "append"
    /\ arg' = <<>>
    /\ UNCHANGED <<block, err, calls, hdrA, hdrB>>

\* arg keeps the slice as it was handed to Sort.
CallSort ==
  /\ blocks' = BlockBy_Sort("Number", blocks)
  /\ lastCall' = "Sort"
  /\ arg' = blocks
  /\ UNCHANGED <<block, err, calls, hdrA, hdrB>>

NextSort == AppendBlock \/ CallSort

SpecSort == InitSort /\ [][NextSort]_vars

(***************************************************************************)
(* The derived header fields against the content lists                     *)
(***************************************************************************)
TxSynced(b) == b.header.TxHash = DeriveSha(TxItems(b.transactions))

ReceiptSynced(b) == b.header.ReceiptHash = DeriveSha(ReceiptItems(b.receipts))

BloomSynced(b) == b.header.Bloom = CreateBloom(b.receipts)

UncleSynced(b) ==
  b.header.UncleHash = Sha3(Encode(ListItem(HeaderItems(b.uncles))))

\* C1: right after SetTransactions or AddTransaction returns, TxHash is the
\* root digest of the transaction list; right after SetReceipts or AddReceipt,
\* ReceiptHash is the root digest of the receipt list and Bloom its bloom;
\* right after SetUncles, UncleHash is the hash of the encoded uncle list.
C1_SetterSync ==
  /\ lastCall = "SetTransactions" => block.transactions = arg
  /\ lastCall \in {"SetTransactions", "AddTransaction"} => TxSynced(block)
  /\ lastCall = "SetReceipts" => block.receipts = arg
  /\ lastCall \in {"SetReceipts", "AddReceipt"} =>
       ReceiptSynced(block) /\ BloomSynced(block)
  /\ lastCall = "SetUncles" => block.uncles = arg /\ UncleSynced(block)

C1_Witness ==
  /\ lastCall = "AddReceipt"
  /\ Len(block.receipts) = 2
  /\ block.transactions # <<>>
  /\ block.header.Bloom # Fill(BloomLength, 0)

\* C2 as stated: in every reachable state, the state right after NewBlock,
\* NewBlockWithHeader or DecodeRLP included, all four derived header fields
\* are in sync with the content lists.
C2_NeverStale ==
  /\ TxSynced(block)
  /\ ReceiptSynced(block)
  /\ BloomSynced(block)
  /\ UncleSynced(block)

\* C2 as amended: NewBlock leaves TxHash, ReceiptHash and UncleHash at the
\* zero hash, which is not the digest of an empty list, and NewBlockWithHeader
\* keeps the derived fields of the header it is given; a derived field that
\* is in sync stays in sync under every call but DecodeRLP.
C2_SyncKept ==
  /\ lastCall = "NewBlock" =>
       /\ block.header.TxHash = ZeroHash /\ ~TxSynced(block)
       /\ block.header.ReceiptHash = ZeroHash /\ ~ReceiptSynced(block)
       /\ block.header.UncleHash = ZeroHash /\ ~UncleSynced(block)
       /\ block.header.Bloom = Fill(BloomLength, 0)
  /\ lastCall = "NewBlockWithHeader" => block.header = PeerHeader
  /\ [][lastCall' # "DecodeRLP" =>
          /\ TxSynced(block) => TxSynced(block')
          /\ ReceiptSynced(block) => ReceiptSynced(block')
          /\ BloomSynced(block) => BloomSynced(block')
          /\ UncleSynced(block) => UncleSynced(block')]_vars

C2_Witness ==
  /\ lastCall = "SetUncles"
  /\ calls = 3
  /\ block.uncles # <<>>
  /\ C2_NeverStale

\* C3: AddTransaction(t) is SetTransactions(old ++ [t]): the list becomes old
\* followed by t and TxHash the root digest of it; adding t1 and then another
\* t2 to an empty list gives the root of [t1, t2], which is neither the root
\* after t1 nor the root of the empty list nor the TxHash of a fresh block.
\* AddReceipt likewise, with ReceiptHash and Bloom.
C3_AppendEquivalence ==
  /\ \A t \in TxPool :
       LET new == Append(block.transactions, t)
       IN  /\ AddTransaction(block, t) = SetTransactions(block, new)
           /\ AddTransaction(block, t).transactions = new
           /\ AddTransaction(block, t).header.TxHash = DeriveSha(TxItems(new))
  /\ \A r \in RcPool :
       LET new == Append(block.receipts, r)
       IN  /\ AddReceipt(block, r) = SetReceipts(block, new)
           /\ AddReceipt(block, r).receipts = new
           /\ AddReceipt(block, r).header.ReceiptHash = DeriveSha(ReceiptItems(new))
           /\ AddReceipt(block, r).header.Bloom = CreateBloom(new)
  /\ \A t1, t2 \in TxPool :
       t1 # t2 /\ block.transactions = <<>> =>
         LET root1 == AddTransaction(block, t1).header.TxHash
             root2 == AddTransaction(AddTransaction(block, t1), t2).header.TxHash
         IN  /\ root1 = DeriveSha(TxItems(<<t1>>))
             /\ root2 = DeriveSha(TxItems(<<t1, t2>>))
             /\ root2 # root1
             /\ root2 # DeriveSha(<<>>)
             /\ root1 # DeriveSha(<<>>)
             /\ calls = 0 => root2 # block.header.TxHash
  /\ \A r1, r2 \in RcPool :
       r1 # r2 /\ block.receipts = <<>> =>
         LET root1 == AddReceipt(block, r1).header.ReceiptHash
             root2 == AddReceipt(AddReceipt(block, r1), r2).header.ReceiptHash
         IN  /\ root2 = DeriveSha(ReceiptItems(<<r1, r2>>))
             /\ root2 # root1
             /\ root2 # DeriveSha(<<>>)
  /\ lastCall = "AddTransaction" =>
       block.transactions[Len(block.transactions)] = arg /\ TxSynced(block)
  /\ lastCall = "AddReceipt" =>
       block.receipts[Len(block.receipts)] = arg /\ ReceiptSynced(block)

C3_Witness ==
  /\ lastCall = "AddTransaction"
  /\ calls = 2
  /\ Len(block.transactions) = 2
  /\ block.transactions[1] # block.transactions[2]
  /\ block.header.TxHash = DeriveSha(TxItems(block.transactions))

\* C4: two headers that agree on the thirteen fields before MixDigest and
\* Nonce have the same HashNoNonce, and different Hashes when they differ at
\* all; two headers that differ on one of the thirteen differ in both hashes.
Agree(h1, h2, fields) == \A f \in fields : h1[f] = h2[f]

C4_NonceIndependence ==
  /\ Agree(hdrA, hdrB, HashedFields) =>
       /\ Header_HashNoNonce(hdrA) = Header_HashNoNonce(hdrB)
       /\ hdrA # hdrB => Header_Hash(hdrA) # Header_Hash(hdrB)
  /\ ~Agree(hdrA, hdrB, HashedFields) =>
       /\ Header_HashNoNonce(hdrA) # Header_HashNoNonce(hdrB)
       /\ Header_Hash(hdrA) # Header_Hash(hdrB)

C4_Witness ==
  /\ Agree(hdrA, hdrB, HashedFields)
  /\ hdrA.Nonce # hdrB.Nonce
  /\ hdrA.MixDigest # hdrB.MixDigest

\* C5: Hash() is HeaderHash whenever that is not the zero hash, whatever the
\* header holds and whatever was called since, and header.Hash() otherwise;
\* ParentHash() likewise with ParentHeaderHash and header.ParentHash;
\* HashNoNonce() is header.HashNoNonce() whatever the two overrides are.
C5_OverridePrecedence ==
  /\ block.HeaderHash # ZeroHash => Block_Hash(block) = block.HeaderHash
  /\ block.HeaderHash = ZeroHash => Block_Hash(block) = Header_Hash(block.header)
  /\ block.ParentHeaderHash # ZeroHash =>
       Block_ParentHash(block) = block.ParentHeaderHash
  /\ block.ParentHeaderHash = ZeroHash =>
       Block_ParentHash(block) = block.header.ParentHash
  /\ Block_HashNoNonce(block) = Header_HashNoNonce(block.header)
  /\ \A h1, h2 \in {ZeroHash, HashA, HashB} :
       Block_HashNoNonce([block EXCEPT !.HeaderHash = h1,
                                       !.ParentHeaderHash = h2])
         = Block_HashNoNonce(block)

C5_Witness ==
  /\ block.HeaderHash # ZeroHash
  /\ block.ParentHeaderHash # ZeroHash
  /\ lastCall = "SetTransactions"
  /\ block.transactions # <<>>
  /\ Block_Hash(block) # Header_Hash(block.header)

\* C6: DecodeRLP succeeds on the encoding of {header, transactions, uncles}
\* with or without a fourth total-difficulty field.  Without it Td is nil
\* afterwards, whatever Td the receiver held; with it Td is the encoded value;
\* header, transactions and uncles are the decoded ones either way.
C6_OptionalTd ==
  /\ \A p \in PeerBlocks :
       /\ DecodeRLP(block, NetworkForm(p)) =
            [block |-> [block EXCEPT !.header = p.header,
                                     !.transactions = p.transactions,
                                     !.uncles = p.uncles, !.Td = Nil],
             err |-> "nil"]
       /\ DecodeRLP(block, StorageForm(p)) =
            [block |-> [block EXCEPT !.header = p.header,
                                     !.transactions = p.transactions,
                                     !.uncles = p.uncles, !.Td = p.Td],
             err |-> "nil"]
  /\ lastCall = "DecodeRLP" /\ err = "nil" =>
       \E p \in PeerBlocks :
         /\ block.header = p.header
         /\ block.transactions = p.transactions
         /\ block.uncles = p.uncles
         /\ \/ arg = NetworkForm(p) /\ block.Td = Nil
            \/ arg = StorageForm(p) /\ block.Td = p.Td

\* A receiver that holds a Td, about to decode a stream without the field.
C6_Witness ==
  /\ lastCall = "Td="
  /\ block.Td = 300
  /\ calls < MaxCalls
  /\ DecodeRLP(block, NetworkForm(PeerA)).err = "nil"
  /\ DecodeRLP(block, NetworkForm(PeerA)).block.Td = Nil
  /\ DecodeRLP(block, StorageForm(PeerC)).block.Td = 0

\* C7: on a stream that does not have the expected shape or field types
\* DecodeRLP returns an error, and whenever it returns an error the receiver
\* is exactly as it was before the call.
C7_AllOrNothing ==
  /\ \A s \in Streams :
       LET r == DecodeRLP(block, s)
       IN  /\ s \in BadStreams => r.err = "error"
           /\ r.err # "nil" => r.block = block
  /\ lastCall = "DecodeRLP" /\ arg \in BadStreams => err = "error"

C7_Witness ==
  /\ lastCall = "DecodeRLP"
  /\ err = "error"
  /\ block.Td # Nil
  /\ block.transactions # <<>>

\* C8: decoding the network form of a block gives its header, its
\* transactions and its uncles, in order, and a nil Td; decoding its storage
\* form gives the same and its Td, nil when the block has none.
C8_RoundTrip ==
  LET recv == PeerA
  IN
    /\ DecodeRLP(recv, NetworkForm(block)) =
         [block |-> [recv EXCEPT !.header = block.header,
                                 !.transactions = block.transactions,
                                 !.uncles = block.uncles, !.Td = Nil],
          err |-> "nil"]
    /\ DecodeRLP(recv, StorageForm(block)) =
         [block |-> [recv EXCEPT !.header = block.header,
                                 !.transactions = block.transactions,
                                 !.uncles = block.uncles, !.Td = block.Td],
          err |-> "nil"]

C8_Witness ==
  /\ Len(block.transactions) = 2
  /\ Len(block.uncles) = 2
  /\ block.Td = 300
  /\ lastCall # "DecodeRLP"
  /\ TxSynced(block) /\ UncleSynced(block)

\* C9: Number is a strict weak ordering of blocks by header number, and
\* BlockBy(Number).Sort leaves the slice a permutation of what it was given,
\* with no block before one of a smaller number.
Count(b, bs) == Cardinality({i \in 1..Len(bs) : bs[i] = b})

C9_SortByNumber ==
  /\ \A b1, b2, b3 \in SortPool :
       /\ ~Number(b1, b1)
       /\ Number(b1, b2) => ~Number(b2, b1)
       /\ Number(b1, b2) /\ Number(b2, b3) => Number(b1, b3)
       /\ (~Number(b1, b2) /\ ~Number(b2, b1) /\ ~Number(b2, b3) /\ ~Number(b3, b2))
            => (~Number(b1, b3) /\ ~Number(b3, b1))
       /\ Number(b1, b2) <=> b1.header.Number < b2.header.Number
  /\ lastCall = "Sort" =>
       /\ Len(blocks) = Len(arg)
       /\ \A b \in SortPool : Count(b, blocks) = Count(b, arg)
       /\ \A i \in 1..Len(blocks) - 1 :
            blocks[i].header.Number <= blocks[i + 1].header.Number

C9_Witness ==
  /\ lastCall = "Sort"
  /\ Len(blocks) = 4
  /\ blocks # arg
  /\ \E i \in 1..3 : /\ blocks[i] # blocks[i + 1]
                      /\ blocks[i].header.Number = blocks[i + 1].header.Number

\* C10: a setter changes its own list and its own derived header field(s) and
\* nothing else of the Block; SetNonce(n) changes the 8 nonce bytes alone, to
\* the big-endian bytes of n, so Nonce() is n and the derived fields and
\* HashNoNonce() are what they were.
C10_Frame ==
  [][/\ lastCall' \in {"SetTransactions", "AddTransaction"} =>
          block' = [block EXCEPT !.transactions = block'.transactions,
                                 !.header.TxHash = block'.header.TxHash]
     /\ lastCall' \in {"SetReceipts", "AddReceipt"} =>
          block' = [block EXCEPT !.receipts = block'.receipts,
                                 !.header.ReceiptHash = block'.header.ReceiptHash,
                                 !.header.Bloom = block'.header.Bloom]
     /\ lastCall' = "SetUncles" =>
          block' = [block EXCEPT !.uncles = block'.uncles,
                                 !.header.UncleHash = block'.header.UncleHash]
     /\ lastCall' = "SetNonce" =>
          /\ block' = [block EXCEPT !.header.Nonce = block'.header.Nonce]
          /\ Len(block'.header.Nonce) = NonceLength
          /\ BEValue(block'.header.Nonce) = arg'
          /\ Block_Nonce(block') = arg'
          /\ block'.header.TxHash = block.header.TxHash
          /\ block'.header.ReceiptHash = block.header.ReceiptHash
          /\ block'.header.Bloom = block.header.Bloom
          /\ block'.header.UncleHash = block.header.UncleHash
          /\ Block_HashNoNonce(block') = Block_HashNoNonce(block)]_vars

C10_Witness ==
  /\ lastCall = "SetNonce"
  /\ arg = 258
  /\ Block_Nonce(block) = 258
  /\ block.transactions # <<>>
  /\ block.uncles # <<>>

====
